---- MODULE Spec2Model ----
(***************************************************************************)
(* A model of musterbot.py: the SQLite tables the bot writes, the          *)
(* in-memory date -> thread-handle dict, the scheduler thread and the      *)
(* Slack event handlers.                                                   *)
(*                                                                         *)
(* A date is a day ordinal, 0 = Monday 2024-01-01; strftime/fromisoformat  *)
(* convert between ordinals and the "%Y-%m-%d" strings the tables hold.    *)
(* In Spec every handler is one atomic action (each SQL statement          *)
(* autocommits); SpecThreads takes the functions that touch the dict       *)
(* statement by statement, as the listener threads and the scheduler       *)
(* thread interleave them.                                                 *)
(* The operations of the workflow (the three post_* functions,             *)
(* handle_response, handle_leave_submission) take an input f naming the    *)
(* store or platform call that raises in this run, "none" when none does;  *)
(* a call that is never reached cannot raise.                              *)
(***************************************************************************)
EXTENDS Integers, Sequences, FiniteSets, TLC

\* ---------------------------------------------------------------- bounds
MaxDays == 1          \* midnights that pass after the first day
MaxEvents == 2        \* Slack events (clicks, submissions, commands) and restarts
MaxPrompts == 2       \* check-in prompts Slack accepts

\* ------------------------------------------------------- the environment
Calendar ==
    << "2024-01-01", "2024-01-02", "2024-01-03", "2024-01-04", "2024-01-05",
       "2024-01-06", "2024-01-07", "2024-01-08", "2024-01-09", "2024-01-10",
       "2024-01-11", "2024-01-12", "2024-01-13", "2024-01-14" >>

\* the same days as dateutil also accepts them (month/day/year)
USCalendar ==
    << "01/01/2024", "01/02/2024", "01/03/2024", "01/04/2024", "01/05/2024",
       "01/06/2024", "01/07/2024", "01/08/2024", "01/09/2024", "01/10/2024",
       "01/11/2024", "01/12/2024", "01/13/2024", "01/14/2024" >>

Dates == 0 .. (Len(Calendar) - 1)

StartDays == {4}      \* the process is first started on Friday 2024-01-05

\* the message timestamps Slack hands out, in order
TsValues == << "1704441600.000100", "1704441600.000200",
               "1704441600.000300", "1704441600.000400" >>

None == "None"

Humans == {"alice", "bob", "carol", "dave"}
Bots == {"musterbot"}
ChannelMembers == {"alice", "bob", "carol", "musterbot"}
IsBot == [u \in Humans \cup Bots |-> u \in Bots]

TARGET_CHANNEL_ID == "C_MUSTER"
REPORTING_USER_ID == "alice"
Scheduler == "scheduler"

\* the inputs the events are drawn from
CheckinUsers == {"alice", "bob"}
LeaveUsers == {"carol"}
CommandUsers == {"alice", "bob"}
SimpleClicks == {"action_in_normal", "action_out_sick"}
ModalClicks == {"action_in_late"}
DetailInputs == {"10:30 AM"}
LeaveDateInputs == {"", "2024-01-05", "2024-01-06"}
HolidayTexts ==
    { <<>>, <<"2024-01-05">>, <<"2024-01-05", "Founders", "Day">>,
      <<"01/05/2024", "Closed">>, <<"someday", "Party">> }
\* the call that raises in a run, for each operation that makes calls
CheckinFailures == {"none", "is_workday.select", "chat_postMessage"}
SummaryFailures ==
    {"none", "is_workday.select", "responses.select", "chat_postMessage"}
LoopFailures == {"leave.select", "chat_postMessage"}
ReminderFailures ==
    {"none", "is_workday.select", "conversations_members", "users_info",
     "responses.select"} \cup LoopFailures
ResponseFailures == {"none", "responses.insert", "chat_postMessage"}
LeaveFailures == {"none", "leave.insert", "chat_postEphemeral"}

\* ------------------------------------------------------------- the state
VARIABLES
    today,            \* date.today()
    events,           \* how many Slack events and restarts there have been
    responses,        \* table responses, in rowid order
    leave,            \* table leave, in rowid order
    holidays,         \* table holidays
    admins,           \* table admins
    daily_thread_ts,  \* the global dict, date string -> ts
    nextTs,           \* index of the next timestamp Slack hands out
    openViews,        \* the detail modals Slack has open
    schedAlive,       \* the scheduler thread is running
    inflight,         \* the calls that have begun and not yet returned
    last,             \* the handler or job that ran last
    sent              \* the messages it delivered

vars == << today, events, responses, leave, holidays, admins, daily_thread_ts,
           nextTs, openViews, schedAlive, inflight, last, sent >>

tables == << responses, leave, holidays, admins >>

EmptyDict == [k \in {} |-> None]

\* a run of a handler or job: who ran it, with which inputs, how it ended
\* and which of its calls raised ("none" when none did)
Ran(op, by, user, force, arg, result, failed) ==
    [op |-> op, by |-> by, user |-> user, force |-> force, arg |-> arg,
     result |-> result, failed |-> failed]

Msg(type, to, text, thread) ==
    [type |-> type, to |-> to, text |-> text, thread |-> thread]

\* ------------------------------------------------------ date conversions
weekday(d) == d % 7

strftime(d) == Calendar[d + 1]

fromisoformat(s) == CHOOSE d \in Dates : Calendar[d + 1] = s

Parsable(tok) ==
    \E d \in Dates : Calendar[d + 1] = tok \/ USCalendar[d + 1] = tok

parse(tok) ==
    CHOOSE d \in Dates : Calendar[d + 1] = tok \/ USCalendar[d + 1] = tok

\* str.split(" ", 1) of a text given as its words
SplitFirst(text) ==
    IF Len(text) < 2 THEN << text >> ELSE << Head(text), Tail(text) >>

\* ------------------------------------------------------------ the tables
\* the key is never found
DictGet_absent(dict, key) == None

\* dict.get(key)
DictGet(dict, key) == IF key \in DOMAIN dict THEN dict[key] ELSE None

setup_database == /\ responses = << >>
                  /\ leave = << >>
                  /\ holidays = {}
                  /\ admins = {REPORTING_USER_ID}

\* INSERT OR REPLACE INTO responses: the table's only key is the rowid
ResponsesConflict(old, new) == old.id = new.id

InsertOrReplaceResponse(rows, new) ==
    SelectSeq(rows, LAMBDA r : ~ResponsesConflict(r, new)) \o << new >>

\* the table has no key: the row is added beside the old one
InsertHoliday_keyless(rows, new) == rows \cup {new}

\* INSERT OR REPLACE INTO holidays: holiday_date is the primary key
InsertOrReplaceHoliday(rows, new) ==
    {r \in rows : r.holiday_date # new.holiday_date} \cup {new}

\* the SELECT without its WHERE clause
ResponsesOn_any_date(today_str) == responses

ResponsesOn(today_str) ==
    SelectSeq(responses, LAMBDA r : r.response_date = today_str)

\* ------------------------------------------------------ helper functions
\* the gate lets every caller through
is_admin_anyone(user_id) == TRUE

is_admin(user_id) == user_id \in admins

\* `> 5` for `>= 5`: Saturday counts as a workday
is_workday_saturday(check_date) ==
    IF weekday(check_date) > 5
    THEN FALSE
    ELSE ~(\E h \in holidays : h.holiday_date = strftime(check_date))

\* the holidays table is never consulted
is_workday_no_holidays(check_date) == weekday(check_date) < 5

is_workday(check_date) ==
    IF weekday(check_date) >= 5
    THEN FALSE
    ELSE ~(\E h \in holidays : h.holiday_date = strftime(check_date))

\* the bots are not filtered out
get_channel_members_with_bots(f) ==
    IF f \in {"conversations_members", "users_info"}
    THEN {}
    ELSE ChannelMembers

\* the except clause returns the members found so far
get_channel_members_partial(f) ==
    IF f = "conversations_members"
    THEN {}
    ELSE {u \in ChannelMembers : ~IsBot[u]}

get_channel_members(f) ==
    IF f \in {"conversations_members", "users_info"}
    THEN {}
    ELSE {u \in ChannelMembers : ~IsBot[u]}

\* `<` for the second `<=`: the end date itself is not on leave
is_user_on_leave_end_exclusive(user_id, check_date) ==
    \E i \in DOMAIN leave :
        /\ leave[i].user_id = user_id
        /\ fromisoformat(leave[i].start_date) <= check_date
        /\ check_date < fromisoformat(leave[i].end_date)

is_user_on_leave(user_id, check_date) ==
    \E i \in DOMAIN leave :
        /\ leave[i].user_id = user_id
        /\ fromisoformat(leave[i].start_date) <= check_date
        /\ check_date <= fromisoformat(leave[i].end_date)

\* -------------------------------------------------------- core bot logic
\* What a post_* function did: how it ended ("skipped" by the off-day rule,
\* "raised" an exception to its caller, "logged" one it caught, or "done"),
\* the messages delivered, and the dict and Slack's counter afterwards.
Effect(result, failed, msgs, dict, n) ==
    [result |-> result, failed |-> failed, sent |-> msgs, ts |-> dict, n |-> n,
     at |-> << >>]

\* the same, of a loop that stopped at user at[2] having passed the users at[1]
EffectAt(eff, at) == [eff EXCEPT !.at = at]

\* the flag is not looked at
OffDaySkip_flagless(ignore_off_day) == ~is_workday(today)

\* `if not ignore_off_day and not is_workday(today): return`
OffDaySkip(ignore_off_day) == ~ignore_off_day /\ ~is_workday(today)

\* the SELECT of is_workday raises: only a weekday reaches the query
WorkdayRaises(ignore_off_day, f) ==
    /\ ~ignore_off_day
    /\ weekday(today) < 5
    /\ f = "is_workday.select"

PromptText == << << "Good morning team! Please check in for the day." >> >>

post_daily_checkin(ignore_off_day, f) ==
    LET today_str == strftime(today) IN
    IF WorkdayRaises(ignore_off_day, f)
    THEN Effect("raised", f, {}, daily_thread_ts, nextTs)
    ELSE IF OffDaySkip(ignore_off_day)
    THEN Effect("skipped", "none", {}, daily_thread_ts, nextTs)
    ELSE IF f = "chat_postMessage"
    THEN Effect("logged", f, {}, daily_thread_ts, nextTs)
    ELSE Effect("done", "none",
                {Msg("prompt", TARGET_CHANNEL_ID, PromptText, None)},
                (today_str :> TsValues[nextTs]) @@ daily_thread_ts,
                nextTs + 1)

SummaryLine(r) ==
    IF r.details # None
    THEN << "bullet", r.user_id, r.response_text, r.details >>
    ELSE << "bullet", r.user_id, r.response_text >>

summary_text(today_str) ==
    LET rows == ResponsesOn(today_str) IN
    IF rows = << >>
    THEN << << "Daily Status Summary for", today_str >>,
            << "No one has checked in yet." >> >>
    ELSE << << "Daily Status Summary for", today_str >> >>
         \o [i \in 1 .. Len(rows) |-> SummaryLine(rows[i])]

post_daily_summary(ignore_off_day, f) ==
    LET today_str == strftime(today) IN
    IF WorkdayRaises(ignore_off_day, f)
    THEN Effect("raised", f, {}, daily_thread_ts, nextTs)
    ELSE IF OffDaySkip(ignore_off_day)
    THEN Effect("skipped", "none", {}, daily_thread_ts, nextTs)
    ELSE IF f = "responses.select"
    THEN Effect("raised", f, {}, daily_thread_ts, nextTs)
    ELSE IF f = "chat_postMessage"
    THEN Effect("logged", f, {}, daily_thread_ts, nextTs)
    ELSE Effect("done", "none",
                {Msg("summary", TARGET_CHANNEL_ID, summary_text(today_str),
                     DictGet(daily_thread_ts, today_str))},
                daily_thread_ts, nextTs)

ReminderText ==
    << << "Just a friendly reminder to please check in for today!" >> >>

\* The loop runs over a set, in no fixed order: when the call f raises at
\* user fu, the users of `before` are the ones the loop had already passed.
missing_users(f) ==
    LET responded_users ==
            {responses[i].user_id : i \in
                {j \in DOMAIN responses :
                    responses[j].response_date = strftime(today)}}
    IN  get_channel_members(f) \ responded_users

LoopAborts(f, fu) ==
    /\ fu \in missing_users(f)
    /\ \/ f = "leave.select"
       \/ f = "chat_postMessage" /\ ~is_user_on_leave(fu, today)

\* each user's step has a try of its own: the loop goes on past the failure
Iterated_isolated(f, before, fu) ==
    IF LoopAborts(f, fu) THEN missing_users(f) \ {fu} ELSE missing_users(f)

\* the users whose step of the loop ran to its end
Iterated(f, before, fu) ==
    IF LoopAborts(f, fu)
    THEN (missing_users(f) \cap before) \ {fu}
    ELSE missing_users(f)

post_reminders(ignore_off_day, f, before, fu) ==
    IF WorkdayRaises(ignore_off_day, f)
    THEN Effect("raised", f, {}, daily_thread_ts, nextTs)
    ELSE IF OffDaySkip(ignore_off_day)
    THEN Effect("skipped", "none", {}, daily_thread_ts, nextTs)
    ELSE IF f = "responses.select"
    THEN Effect("logged", f, {}, daily_thread_ts, nextTs)
    ELSE LET recipients == {u \in Iterated(f, before, fu) :
                                ~is_user_on_leave(u, today)}
             eff == Effect(IF LoopAborts(f, fu) THEN "logged" ELSE "done",
                           IF \/ LoopAborts(f, fu)
                              \/ f \in {"conversations_members", "users_info"}
                           THEN f ELSE "none",
                           {Msg("reminder", u, ReminderText, None) :
                               u \in recipients},
                           daily_thread_ts, nextTs)
         IN  IF LoopAborts(f, fu)
             THEN EffectAt(eff, << missing_users(f) \cap before, fu >>)
             ELSE eff

\* ----------------------------------------- Slack action and view handlers
ConfirmText(user_id, response_text, details) ==
    IF details # None
    THEN << << "has checked in", user_id, response_text, details >> >>
    ELSE << << "has checked in", user_id, response_text >> >>

\* the off-day rule is applied to responses too
handle_response_workdays_only(user_id, response_text, details, f) ==
    LET today_str == strftime(today)
        thread_ts == DictGet(daily_thread_ts, today_str)
        row == [id |-> Len(responses) + 1, user_id |-> user_id,
                response_date |-> today_str,
                response_text |-> response_text, details |-> details]
    IN  IF ~is_workday(today)
        THEN [result |-> "skipped", failed |-> "none", rows |-> responses,
              sent |-> {}]
        ELSE IF f = "responses.insert"
        THEN [result |-> "logged", failed |-> f, rows |-> responses,
              sent |-> {}]
        ELSE IF f = "chat_postMessage"
        THEN [result |-> "logged", failed |-> f,
              rows |-> InsertOrReplaceResponse(responses, row), sent |-> {}]
        ELSE [result |-> "done", failed |-> "none",
              rows |-> InsertOrReplaceResponse(responses, row),
              sent |-> {Msg("confirm", TARGET_CHANNEL_ID,
                            ConfirmText(user_id, response_text, details),
                            thread_ts)}]

\* the confirmation is posted first and the row written after it
handle_response_post_first(user_id, response_text, details, f) ==
    LET today_str == strftime(today)
        thread_ts == DictGet(daily_thread_ts, today_str)
        row == [id |-> Len(responses) + 1, user_id |-> user_id,
                response_date |-> today_str,
                response_text |-> response_text, details |-> details]
        confirm == Msg("confirm", TARGET_CHANNEL_ID,
                       ConfirmText(user_id, response_text, details), thread_ts)
    IN  IF f = "chat_postMessage"
        THEN [result |-> "logged", failed |-> f, rows |-> responses,
              sent |-> {}]
        ELSE IF f = "responses.insert"
        THEN [result |-> "logged", failed |-> f, rows |-> responses,
              sent |-> {confirm}]
        ELSE [result |-> "done", failed |-> "none",
              rows |-> InsertOrReplaceResponse(responses, row),
              sent |-> {confirm}]

handle_response(user_id, response_text, details, f) ==
    LET today_str == strftime(today)
        thread_ts == DictGet(daily_thread_ts, today_str)
        row == [id |-> Len(responses) + 1, user_id |-> user_id,
                response_date |-> today_str,
                response_text |-> response_text, details |-> details]
    IN  IF f = "responses.insert"
        THEN [result |-> "logged", failed |-> f, rows |-> responses,
              sent |-> {}]
        ELSE IF f = "chat_postMessage"
        THEN [result |-> "logged", failed |-> f,
              rows |-> InsertOrReplaceResponse(responses, row), sent |-> {}]
        ELSE [result |-> "done", failed |-> "none",
              rows |-> InsertOrReplaceResponse(responses, row),
              sent |-> {Msg("confirm", TARGET_CHANNEL_ID,
                            ConfirmText(user_id, response_text, details),
                            thread_ts)}]

simple_response_map ==
    [action_in_normal |-> "In at Normal Time",
     action_wfh |-> "Working from Home",
     action_out_sick |-> "Out Sick",
     action_liberty |-> "Liberty"]

modal_callback_id ==
    [action_in_late |-> "modal_submit_action_in_late",
     action_appointment |-> "modal_submit_action_appointment",
     action_other |-> "modal_submit_action_other"]

\* the labels are one entry off
modal_response_map_shifted ==
    [modal_submit_action_in_late |-> "Appointment",
     modal_submit_action_appointment |-> "Other",
     modal_submit_action_other |-> "In Late"]

modal_response_map ==
    [modal_submit_action_in_late |-> "In Late",
     modal_submit_action_appointment |-> "Appointment",
     modal_submit_action_other |-> "Other"]

\* one more Slack event is delivered (or the process is started again)
Event == /\ events < MaxEvents
         /\ events' = events + 1

handle_simple_checkin(u, action_id, f) ==
    LET r == handle_response(u, simple_response_map[action_id], None, f) IN
    /\ Event
    /\ responses' = r.rows
    /\ sent' = r.sent
    /\ last' = Ran("handle_simple_checkin", "user", u, FALSE, action_id,
                   r.result, r.failed)
    /\ UNCHANGED << inflight, today, leave, holidays, admins, daily_thread_ts,
                    nextTs, openViews, schedAlive >>

handle_modal_checkin(u, action_id) ==
    /\ Event
    /\ openViews' = openViews \cup
            {[user |-> u, callback_id |-> modal_callback_id[action_id]]}
    /\ sent' = {}
    /\ last' = Ran("handle_modal_checkin", "user", u, FALSE, action_id,
                   "done", "none")
    /\ UNCHANGED << inflight, today, responses, leave, holidays, admins,
                    daily_thread_ts, nextTs, schedAlive >>

handle_modal_submission(u, callback_id, details, f) ==
    LET r == handle_response(u, modal_response_map[callback_id], details, f)
    IN
    /\ Event
    /\ [user |-> u, callback_id |-> callback_id] \in openViews
    /\ openViews' = openViews \ {[user |-> u, callback_id |-> callback_id]}
    /\ responses' = r.rows
    /\ sent' = r.sent
    /\ last' = Ran("handle_modal_submission", "user", u, FALSE,
                   << callback_id, details >>, r.result, r.failed)
    /\ UNCHANGED << inflight, today, leave, holidays, admins, daily_thread_ts,
                    nextTs, schedAlive >>

\* ------------------------------------------------- slash command handlers
RefusalText == << << "Sorry, only admins can use this command." >> >>

Say(u, text) == Msg("say", u, text, None)

\* a command handler of a caller who is not an admin
Refuse(op, u) ==
    /\ sent' = {Say(u, RefusalText)}
    /\ last' = Ran(op, "user", u, TRUE, << >>, "refused", "none")
    /\ UNCHANGED << inflight, today, responses, leave, holidays, admins,
                    daily_thread_ts, nextTs, openViews, schedAlive >>

\* a post_* function run by the scheduler or by a command handler, which
\* has said `said` before: an exception it raises ends the scheduler thread
RunPost(op, by, u, force, eff, said) ==
    /\ sent' = said \cup eff.sent
    /\ daily_thread_ts' = eff.ts
    /\ nextTs' = eff.n
    /\ schedAlive' = IF by = "sched" /\ eff.result = "raised"
                     THEN FALSE
                     ELSE schedAlive
    /\ last' = Ran(op, by, u, force, eff.at, eff.result, eff.failed)
    /\ UNCHANGED << inflight, today, responses, leave, holidays, admins, openViews >>

handle_post_checkin(u, f) ==
    /\ Event
    /\ IF ~is_admin(u)
       THEN Refuse("handle_post_checkin", u)
       ELSE /\ nextTs <= MaxPrompts
            /\ RunPost("handle_post_checkin", "user", u, TRUE,
                       post_daily_checkin(TRUE, f),
                       {Say(u, << << "Forcing the daily check-in post now..." >> >>)})

handle_post_reminders(u, f, before, fu) ==
    /\ Event
    /\ IF ~is_admin(u)
       THEN Refuse("handle_post_reminders", u)
       ELSE RunPost("handle_post_reminders", "user", u, TRUE,
                    post_reminders(TRUE, f, before, fu),
                    {Say(u, << << "Forcing reminder DMs now..." >> >>)})

handle_post_summary(u, f) ==
    /\ Event
    /\ IF ~is_admin(u)
       THEN Refuse("handle_post_summary", u)
       ELSE RunPost("handle_post_summary", "user", u, TRUE,
                    post_daily_summary(TRUE, f),
                    {Say(u, << << "Forcing the daily summary post now..." >> >>)})

\* the two dates are not compared
InvalidRange_unordered(start_date, end_date) ==
    start_date = "" \/ end_date = ""

\* `not start_date or not end_date or parse(end_date) < parse(start_date)`
InvalidRange(start_date, end_date) ==
    \/ start_date = ""
    \/ end_date = ""
    \/ parse(end_date) < parse(start_date)

handle_leave_submission(u, start_date, end_date, f) ==
    LET rejected == InvalidRange(start_date, end_date)
        row == [id |-> Len(leave) + 1, user_id |-> u,
                start_date |-> start_date, end_date |-> end_date]
        stored == ~rejected /\ f # "leave.insert"
        confirmed == stored /\ f # "chat_postEphemeral"
    IN
    /\ Event
    /\ leave' = IF stored THEN Append(leave, row) ELSE leave
    /\ sent' = IF confirmed
               THEN {Msg("ephemeral", u,
                         << << "Got it! Your leave has been recorded.",
                               start_date, end_date >> >>, None)}
               ELSE {}
    /\ last' = Ran("handle_leave_submission", "user", u, FALSE,
                   << start_date, end_date >>,
                   IF rejected THEN "rejected"
                   ELSE IF confirmed THEN "done" ELSE "logged",
                   IF rejected \/ confirmed THEN "none" ELSE f)
    /\ UNCHANGED << inflight, today, responses, holidays, admins, daily_thread_ts,
                    nextTs, openViews, schedAlive >>

handle_holiday(u, text) ==
    LET parts == SplitFirst(text) IN
    /\ Event
    /\ IF ~is_admin(u)
       THEN Refuse("handle_holiday", u)
       ELSE IF Len(parts) < 2
       THEN /\ sent' = {Say(u, << << "Usage: /holiday YYYY-MM-DD Description" >> >>)}
            /\ last' = Ran("handle_holiday", "user", u, FALSE, text,
                           "usage", "none")
            /\ UNCHANGED << inflight, today, responses, leave, holidays, admins,
                            daily_thread_ts, nextTs, openViews, schedAlive >>
       ELSE IF ~Parsable(parts[1])
       THEN /\ sent' = {Say(u, << << "Sorry, I couldn't understand that date." >> >>)}
            /\ last' = Ran("handle_holiday", "user", u, FALSE, text,
                           "unparsable", "none")
            /\ UNCHANGED << inflight, today, responses, leave, holidays, admins,
                            daily_thread_ts, nextTs, openViews, schedAlive >>
       ELSE LET parsed_date == strftime(parse(parts[1])) IN
            /\ holidays' = InsertOrReplaceHoliday(holidays,
                   [holiday_date |-> parsed_date, description |-> parts[2]])
            /\ sent' = {Say(u, << << "Holiday has been added.", parsed_date >>,
                                  parts[2] >>)}
            /\ last' = Ran("handle_holiday", "user", u, FALSE, text,
                           "done", "none")
            /\ UNCHANGED << inflight, today, responses, leave, admins,
                            daily_thread_ts, nextTs, openViews, schedAlive >>

\* the four commands that only acknowledge
ComingSoon(op, u, text) ==
    /\ Event
    /\ sent' = {Say(u, << << text >> >>)}
    /\ last' = Ran(op, "user", u, FALSE, << >>, "done", "none")
    /\ UNCHANGED << inflight, today, responses, leave, holidays, admins,
                    daily_thread_ts, nextTs, openViews, schedAlive >>

handle_add_admin(u) ==
    ComingSoon("handle_add_admin", u, "Add admin feature coming soon!")

handle_edit_status(u) ==
    ComingSoon("handle_edit_status", u, "Edit status feature coming soon!")

handle_report(u) ==
    ComingSoon("handle_report", u, "Report feature coming soon!")

handle_config(u) ==
    ComingSoon("handle_config", u, "Config feature coming soon!")

\* ------------------------------------------------------------ scheduling
\* run_schedule arms the check-in job for Monday to Friday at checkin_time
\* and the reminder and summary jobs for every day at reminder_time and
\* summary_time; while the thread lives, run_pending runs a job when its
\* time comes, with the default ignore_off_day = False.  The times are rows
\* of the config table: the model fixes neither them nor their order.
LastDay == (CHOOSE d \in StartDays : \A e \in StartDays : e <= d) + MaxDays

run_checkin_job(f) ==
    /\ schedAlive
    /\ weekday(today) < 5
    /\ nextTs <= MaxPrompts
    /\ RunPost("post_daily_checkin", "sched", Scheduler, FALSE,
               post_daily_checkin(FALSE, f), {})
    /\ UNCHANGED events

run_reminders_job(f, before, fu) ==
    /\ schedAlive
    /\ RunPost("post_reminders", "sched", Scheduler, FALSE,
               post_reminders(FALSE, f, before, fu), {})
    /\ UNCHANGED events

run_summary_job(f) ==
    /\ schedAlive
    /\ RunPost("post_daily_summary", "sched", Scheduler, FALSE,
               post_daily_summary(FALSE, f), {})
    /\ UNCHANGED events

Midnight ==
    /\ today < LastDay
    /\ today' = today + 1
    /\ sent' = {}
    /\ last' = Ran("midnight", "clock", Scheduler, FALSE, << >>, "done", "none")
    /\ UNCHANGED << inflight, events, responses, leave, holidays, admins,
                    daily_thread_ts, nextTs, openViews, schedAlive >>

\* the process is started again: the tables stay, the dict is empty and
\* the handlers that were running are gone
Restart ==
    /\ Event
    /\ admins' = admins \cup {REPORTING_USER_ID}
    /\ daily_thread_ts' = EmptyDict
    /\ schedAlive' = TRUE
    /\ inflight' = {}
    /\ sent' = {}
    /\ last' = Ran("restart", "clock", Scheduler, FALSE, << >>, "done", "none")
    /\ UNCHANGED << today, responses, leave, holidays, nextTs, openViews >>

\* ------------------------------------------------------ the specification
Init ==
    /\ today \in StartDays
    /\ events = 0
    /\ setup_database
    /\ daily_thread_ts = EmptyDict
    /\ nextTs = 1
    /\ openViews = {}
    /\ schedAlive = TRUE
    /\ inflight = {}
    /\ sent = {}
    /\ last = Ran("start", "clock", Scheduler, FALSE, << >>, "done", "none")

HumanMembers == {u \in ChannelMembers : ~IsBot[u]}

\* the loop inputs << before, fu >>: the call of the loop that raises is one
\* the loop makes, at a user it had not passed; they are left fixed when no
\* such call raises
LoopInputs(f) ==
    IF f \in LoopFailures
    THEN UNION {{<< before, fu >> :
                    before \in SUBSET (missing_users(f) \ {fu})} :
                fu \in {u \in HumanMembers : LoopAborts(f, u)}}
    ELSE {<< {}, REPORTING_USER_ID >>}

\* a call that is not reached cannot raise: is_workday's SELECT is made
\* only on a weekday without the flag, the calls after it only when the
\* off-day rule lets the function go on
Reached(ignore_off_day, f) ==
    \/ f = "none"
    \/ f = "is_workday.select" /\ WorkdayRaises(ignore_off_day, f)
    \/ f # "is_workday.select" /\ ~OffDaySkip(ignore_off_day)

\* a command that is refused makes no call that could raise
CallsMade(u, f) == f = "none" \/ (is_admin(u) /\ Reached(TRUE, f))

Next ==
    \/ \E f \in CheckinFailures : Reached(FALSE, f) /\ run_checkin_job(f)
    \/ \E f \in ReminderFailures :
            /\ Reached(FALSE, f)
            /\ \E at \in LoopInputs(f) : run_reminders_job(f, at[1], at[2])
    \/ \E f \in SummaryFailures : Reached(FALSE, f) /\ run_summary_job(f)
    \/ Midnight
    \/ Restart
    \/ \E u \in CheckinUsers, a \in SimpleClicks, f \in ResponseFailures :
            handle_simple_checkin(u, a, f)
    \/ \E u \in CheckinUsers, a \in ModalClicks : handle_modal_checkin(u, a)
    \/ \E u \in CheckinUsers, a \in ModalClicks, d \in DetailInputs,
          f \in ResponseFailures :
            handle_modal_submission(u, modal_callback_id[a], d, f)
    \/ \E u \in LeaveUsers, s \in LeaveDateInputs, e \in LeaveDateInputs,
          f \in LeaveFailures : handle_leave_submission(u, s, e, f)
    \/ \E u \in CommandUsers, f \in CheckinFailures :
            CallsMade(u, f) /\ handle_post_checkin(u, f)
    \/ \E u \in CommandUsers, f \in ReminderFailures :
            /\ CallsMade(u, f)
            /\ \E at \in LoopInputs(f) :
                   handle_post_reminders(u, f, at[1], at[2])
    \/ \E u \in CommandUsers, f \in SummaryFailures :
            CallsMade(u, f) /\ handle_post_summary(u, f)
    \/ \E u \in CommandUsers, text \in HolidayTexts : handle_holiday(u, text)
    \/ \E u \in CommandUsers : handle_add_admin(u)
    \/ \E u \in CommandUsers : handle_edit_status(u)
    \/ \E u \in CommandUsers : handle_report(u)
    \/ \E u \in CommandUsers : handle_config(u)

Spec == Init /\ [][Next]_vars

\* ------------------------------------- is_workday as a function of its inputs
\* Any date of the calendar against any holidays table over these dates.
WorkdayHolidayDates ==
    {"2024-01-04", "2024-01-05", "2024-01-06", "2024-01-07", "2024-01-08"}

InitWorkday ==
    /\ today \in Dates
    /\ events = 0
    /\ responses = << >>
    /\ leave = << >>
    /\ admins = {REPORTING_USER_ID}
    /\ holidays \in
         {{[holiday_date |-> d, description |-> << "Holiday" >>] : d \in S} :
             S \in SUBSET WorkdayHolidayDates}
    /\ daily_thread_ts = EmptyDict
    /\ nextTs = 1
    /\ openViews = {}
    /\ schedAlive = TRUE
    /\ inflight = {}
    /\ sent = {}
    /\ last = Ran("start", "clock", Scheduler, FALSE, << >>, "done", "none")

eval_is_workday ==
    /\ last' = Ran("is_workday", "clock", Scheduler, FALSE, today,
                   IF is_workday(today) THEN "True" ELSE "False", "none")
    /\ UNCHANGED << inflight, today, events, responses, leave, holidays, admins,
                    daily_thread_ts, nextTs, openViews, schedAlive, sent >>

NextWorkday == eval_is_workday

SpecWorkday == InitWorkday /\ [][NextWorkday]_vars

\* ------------------------------ is_user_on_leave as a function of its inputs
\* Any date around the leave periods against any leave table of up to
\* MaxLeaveRows rows of two users; a row the bot stored has start <= end.
MaxLeaveRows == 2

LeaveRowUsers == {"bob", "carol"}

LeaveRowDates == {"2024-01-05", "2024-01-06", "2024-01-07"}

LeaveCheckDates == {d \in Dates : 3 <= d /\ d <= 7}

LeaveRows ==
    {r \in [user_id : LeaveRowUsers, start_date : LeaveRowDates,
            end_date : LeaveRowDates] :
        fromisoformat(r.start_date) <= fromisoformat(r.end_date)}

LeaveTables ==
    UNION {[1 .. n -> LeaveRows] : n \in 0 .. MaxLeaveRows}

InitLeave ==
    /\ today \in LeaveCheckDates
    /\ events = 0
    /\ responses = << >>
    /\ leave \in {[i \in DOMAIN t |->
                      [id |-> i, user_id |-> t[i].user_id,
                       start_date |-> t[i].start_date,
                       end_date |-> t[i].end_date]] : t \in LeaveTables}
    /\ holidays = {}
    /\ admins = {REPORTING_USER_ID}
    /\ daily_thread_ts = EmptyDict
    /\ nextTs = 1
    /\ openViews = {}
    /\ schedAlive = TRUE
    /\ inflight = {}
    /\ sent = {}
    /\ last = Ran("start", "clock", Scheduler, FALSE, << >>, "done", "none")

eval_is_user_on_leave(u) ==
    /\ last' = Ran("is_user_on_leave", "clock", u, FALSE, today,
                   IF is_user_on_leave(u, today) THEN "True" ELSE "False",
                   "none")
    /\ UNCHANGED << inflight, today, events, responses, leave, holidays, admins,
                    daily_thread_ts, nextTs, openViews, schedAlive, sent >>

NextLeave == \E u \in LeaveRowUsers : eval_is_user_on_leave(u)

SpecLeave == InitLeave /\ [][NextLeave]_vars

\* ------------------------------------------- the handlers as threads
\* Slack's listeners run on a thread pool beside the scheduler thread, so a
\* handler can run between two statements of another.  Here the two
\* functions that touch daily_thread_ts are taken statement by statement:
\* post_daily_checkin is its chat_postMessage call and then the assignment
\* of the returned ts; handle_response is the dict read and the INSERT and
\* then the chat_postMessage of the confirmation.
Call(op, by, user, day, ts, arg) ==
    [op |-> op, by |-> by, user |-> user, day |-> day, ts |-> ts, arg |-> arg]

PromptOps == {"post_daily_checkin", "handle_post_checkin"}

\* run_pending runs one job at a time
SchedulerIdle == \A c \in inflight : c.by # "sched"

\* up to `result = app.client.chat_postMessage(...)` having delivered
post_daily_checkin_call(op, by, u, ignore_off_day, f, said) ==
    LET eff == post_daily_checkin(ignore_off_day, f) IN
    /\ nextTs <= MaxPrompts
    /\ IF eff.result # "done"
       THEN RunPost(op, by, u, ignore_off_day, eff, said)
       ELSE /\ sent' = said \cup eff.sent
            /\ nextTs' = eff.n
            /\ inflight' = inflight \cup
                   {Call(op, by, u, strftime(today), TsValues[nextTs], << >>)}
            /\ last' = Ran(op, by, u, ignore_off_day, << >>, "posted", "none")
            /\ UNCHANGED << today, responses, leave, holidays, admins,
                            daily_thread_ts, openViews, schedAlive >>

\* the dict keeps the first ts of a date
StoreTs_setdefault(dict, day, ts) ==
    IF day \in DOMAIN dict THEN dict ELSE (day :> ts) @@ dict

\* `daily_thread_ts[today.strftime("%Y-%m-%d")] = result['ts']`
StoreTs(dict, day, ts) == (day :> ts) @@ dict

post_daily_checkin_store(c) ==
    /\ c \in inflight
    /\ c.op \in PromptOps
    /\ daily_thread_ts' = StoreTs(daily_thread_ts, c.day, c.ts)
    /\ inflight' = inflight \ {c}
    /\ sent' = {}
    /\ last' = Ran(c.op, c.by, c.user, c.by = "user", << c.day, c.ts >>,
                   "done", "none")
    /\ UNCHANGED << today, events, responses, leave, holidays, admins,
                    nextTs, openViews, schedAlive >>

run_checkin_job_call(f) ==
    /\ schedAlive
    /\ SchedulerIdle
    /\ weekday(today) < 5
    /\ post_daily_checkin_call("post_daily_checkin", "sched", Scheduler,
                               FALSE, f, {})
    /\ UNCHANGED events

handle_post_checkin_call(u, f) ==
    /\ Event
    /\ IF ~is_admin(u)
       THEN Refuse("handle_post_checkin", u)
       ELSE post_daily_checkin_call("handle_post_checkin", "user", u, TRUE, f,
                {Say(u, << << "Forcing the daily check-in post now..." >> >>)})

\* handle_response up to the commit of its INSERT
handle_response_insert(u, action_id, f) ==
    LET today_str == strftime(today)
        thread_ts == DictGet(daily_thread_ts, today_str)
        r == handle_response(u, simple_response_map[action_id], None, f)
    IN
    /\ Event
    /\ responses' = r.rows
    /\ sent' = {}
    /\ IF f = "responses.insert"
       THEN /\ last' = Ran("handle_simple_checkin", "user", u, FALSE,
                           action_id, r.result, r.failed)
            /\ UNCHANGED inflight
       ELSE /\ last' = Ran("handle_simple_checkin", "user", u, FALSE,
                           action_id, "inserted", "none")
            /\ inflight' = inflight \cup
                   {Call("handle_response", "user", u, today_str, thread_ts,
                         action_id)}
    /\ UNCHANGED << today, leave, holidays, admins, daily_thread_ts, nextTs,
                    openViews, schedAlive >>

\* the chat_postMessage of the confirmation, with the thread_ts read before
handle_response_confirm(c, f) ==
    /\ c \in inflight
    /\ c.op = "handle_response"
    /\ inflight' = inflight \ {c}
    /\ sent' = IF f = "chat_postMessage"
               THEN {}
               ELSE {Msg("confirm", TARGET_CHANNEL_ID,
                         ConfirmText(c.user, simple_response_map[c.arg], None),
                         c.ts)}
    /\ last' = Ran("handle_simple_checkin", "user", c.user, FALSE, c.arg,
                   IF f = "chat_postMessage" THEN "logged" ELSE "done", f)
    /\ UNCHANGED << today, events, responses, leave, holidays, admins,
                    daily_thread_ts, nextTs, openViews, schedAlive >>

ThreadClicks == {"action_in_normal"}

InsertFailures == {"none", "responses.insert"}

ConfirmFailures == {"none", "chat_postMessage"}

NextThreads ==
    \/ \E f \in CheckinFailures :
            Reached(FALSE, f) /\ run_checkin_job_call(f)
    \/ \E u \in CommandUsers, f \in CheckinFailures :
            CallsMade(u, f) /\ handle_post_checkin_call(u, f)
    \/ \E c \in inflight : post_daily_checkin_store(c)
    \/ \E u \in CheckinUsers, a \in ThreadClicks, f \in InsertFailures :
            handle_response_insert(u, a, f)
    \/ \E c \in inflight, f \in ConfirmFailures : handle_response_confirm(c, f)
    \/ \E f \in SummaryFailures :
            Reached(FALSE, f) /\ SchedulerIdle /\ run_summary_job(f)
    \/ \E u \in CommandUsers, f \in SummaryFailures :
            CallsMade(u, f) /\ handle_post_summary(u, f)
    \/ Midnight
    \/ Restart

SpecThreads == Init /\ [][NextThreads]_vars

\* ------------------------------------------- the seven check-in buttons
\* Only the listeners of the prompt's buttons and of the detail modal, with
\* every action_id the prompt offers.
NextButtons ==
    \/ \E u \in CheckinUsers, a \in DOMAIN simple_response_map,
          f \in ResponseFailures : handle_simple_checkin(u, a, f)
    \/ \E u \in CheckinUsers, a \in DOMAIN modal_callback_id :
            handle_modal_checkin(u, a)
    \/ \E u \in CheckinUsers, a \in DOMAIN modal_callback_id,
          d \in DetailInputs, f \in ResponseFailures :
            handle_modal_submission(u, modal_callback_id[a], d, f)
    \/ Midnight

SpecButtons == Init /\ [][NextButtons]_vars

\* ================================================================ claims
\* The vocabulary of the claims, stated on the tables and the calendar.
DayName(d) ==
    << "Monday", "Tuesday", "Wednesday", "Thursday", "Friday", "Saturday",
       "Sunday" >>[(d % 7) + 1]

IsWeekend(d) == DayName(d) \in {"Saturday", "Sunday"}

DayOf(s) == CHOOSE d \in Dates : Calendar[d + 1] = s

HolidayOn(d) == \E h \in holidays : DayOf(h.holiday_date) = d

OffDay(d) == IsWeekend(d) \/ HolidayOn(d)

RowsOfToday == {i \in DOMAIN responses : DayOf(responses[i].response_date) = today}

RespondedToday == {responses[i].user_id : i \in RowsOfToday}

OnLeaveToday(u) ==
    \E i \in DOMAIN leave :
        /\ leave[i].user_id = u
        /\ DayOf(leave[i].start_date) <= today
        /\ today <= DayOf(leave[i].end_date)

ExpectedReminded ==
    {u \in ChannelMembers :
        u \notin Bots /\ u \notin RespondedToday /\ ~OnLeaveToday(u)}

Delivered(type) == {m \in sent : m.type = type}

Reminded == {m.to : m \in Delivered("reminder")}

AdminOnly == Msg("say", last.user,
                 << << "Sorry, only admins can use this command." >> >>, None)

ScheduledOps == {"post_daily_checkin", "post_reminders", "post_daily_summary"}

ForcedOps ==
    {"handle_post_checkin", "handle_post_reminders", "handle_post_summary"}

\* C1: the responses table holds at most one row per (user, date).
C1_OneResponsePerUserDate ==
    \A i, j \in DOMAIN responses :
        (/\ responses[i].user_id = responses[j].user_id
         /\ responses[i].response_date = responses[j].response_date) => i = j

\* C2 as stated: after every run of post_reminders that the off-day rule did
\* not suppress, the users reminded are exactly the human channel members
\* with no response today who are not on leave today.
ReminderRun ==
    /\ last.op \in {"post_reminders", "handle_post_reminders"}
    /\ last.result \in {"done", "logged"}

C2_RemindedExactly == ReminderRun => Reminded = ExpectedReminded

\* C2 amended: after every such run the users reminded are among the human
\* channel members with no response today who are not on leave today (so no
\* bot and no responder is reminded), and they are exactly those users when
\* no call of the run failed.
C2_RemindedWithinAndExactUnlessFailed ==
    ReminderRun =>
        /\ Reminded \subseteq ExpectedReminded
        /\ last.failed = "none" => Reminded = ExpectedReminded

C2_Witness ==
    /\ last.op = "post_reminders"
    /\ last.result = "done"
    /\ last.failed = "none"
    /\ RespondedToday = {"alice", "bob"}
    /\ Reminded = {"carol"}

\* C3: every leave row has both dates and end >= start, and a submission
\* with a missing date or with end < start inserts no row and sends nothing.
LeaveRowsOrdered ==
    \A i \in DOMAIN leave :
        /\ leave[i].start_date # ""
        /\ leave[i].end_date # ""
        /\ DayOf(leave[i].end_date) >= DayOf(leave[i].start_date)

BadRange(arg) ==
    \/ arg[1] = ""
    \/ arg[2] = ""
    \/ DayOf(arg[2]) < DayOf(arg[1])

C3_BadLeaveRejected ==
    /\ []LeaveRowsOrdered
    /\ [][(last'.op = "handle_leave_submission" /\ BadRange(last'.arg))
            => (leave' = leave /\ sent' = {})]_vars

C3_Witness ==
    /\ last.op = "handle_leave_submission"
    /\ last.arg = << "2024-01-06", "2024-01-05" >>
    /\ last.result = "rejected"
    /\ leave = << >>
    /\ sent = {}

\* C4: /post_checkin, /post_reminders, /post_summary or /holiday from a user
\* who is not in the admins table delivers the refusal and nothing else,
\* and changes neither a table nor the thread dict.
C4_NonAdminRefused ==
    [][(last'.op \in ForcedOps \cup {"handle_holiday"}
        /\ last'.user \notin admins)
        => /\ sent' = {Msg("say", last'.user,
                           << << "Sorry, only admins can use this command." >> >>,
                           None)}
           /\ UNCHANGED << inflight, today, responses, leave, holidays, admins,
                           daily_thread_ts, nextTs, openViews, schedAlive >>]_vars

C4_Witness ==
    /\ last.op = "handle_holiday"
    /\ last.user = "bob"
    /\ "bob" \notin admins
    /\ sent = {AdminOnly}
    /\ holidays = {}

\* C5: on a Saturday, a Sunday or a holiday the three post operations
\* called with ignore_off_day = False send nothing and leave the thread dict
\* alone; called with ignore_off_day = True they are not suppressed: the
\* prompt is posted and its ts recorded, the summary is posted, the
\* reminders go out, unless one of their own calls fails.
Performed(op) ==
    CASE op = "handle_post_checkin" ->
            /\ Delivered("prompt")' # {}
            /\ Calendar[today + 1] \in DOMAIN daily_thread_ts'
            /\ daily_thread_ts'[Calendar[today + 1]] = TsValues[nextTs]
      [] op = "handle_post_summary" -> Delivered("summary")' # {}
      [] op = "handle_post_reminders" -> Reminded' = ExpectedReminded

C5_OffDayRule ==
    [][OffDay(today) =>
        /\ (last'.op \in ScheduledOps /\ ~last'.force)
              => (sent' = {} /\ daily_thread_ts' = daily_thread_ts)
        /\ (last'.op \in ForcedOps /\ last'.force /\ last'.user \in admins)
              => /\ last'.result # "skipped"
                 /\ last'.failed = "none" => Performed(last'.op)]_vars

C5_Witness ==
    /\ OffDay(today)
    /\ DayName(today) = "Saturday"
    /\ last.op = "handle_post_checkin"
    /\ last.result = "done"
    /\ Delivered("prompt") # {}
    /\ Calendar[today + 1] \in DOMAIN daily_thread_ts

\* C6: whatever call failed in the run before, the scheduler thread is
\* still running.
C6_SchedulerKeepsRunning == last.failed # "none" => schedAlive

\* C7: /add_admin, /edit_status, /report and /config from a user who is not
\* an admin deliver the admin-only refusal.
StubOps ==
    {"handle_add_admin", "handle_edit_status", "handle_report", "handle_config"}

C7_StubsRefuseNonAdmins ==
    (last.op \in StubOps /\ last.user \notin admins) => sent = {AdminOnly}

\* C8: a job the scheduler fires runs with ignore_off_day = False and sends
\* nothing on a Saturday, a Sunday or a holiday; the check-in job does not
\* fire on a Saturday or Sunday at all.
C8_NoScheduledPostOnOffDay ==
    last.by = "sched" =>
        /\ ~last.force
        /\ OffDay(today) => sent = {}
        /\ last.op = "post_daily_checkin" => ~IsWeekend(today)

C8_Witness ==
    /\ last.by = "sched"
    /\ last.op = "post_reminders"
    /\ DayName(today) = "Saturday"
    /\ ExpectedReminded # {}
    /\ sent = {}

\* C9: a summary that is posted has one bullet line per responses row of
\* today, in row order, and its only other line is the fixed "no one has
\* checked in" line exactly when today has no row.
Bullets(text) == SelectSeq(text, LAMBDA line : line[1] = "bullet")

NoOneLine == << "No one has checked in yet." >>

HasNoOneLine(text) == \E k \in DOMAIN text : text[k] = NoOneLine

C9_SummaryOneBulletPerRow ==
    \A m \in Delivered("summary") :
        LET rows == SelectSeq(responses,
                        LAMBDA r : DayOf(r.response_date) = today)
        IN  /\ Len(Bullets(m.text)) = Len(rows)
            /\ \A k \in DOMAIN rows :
                   /\ Bullets(m.text)[k][2] = rows[k].user_id
                   /\ Bullets(m.text)[k][3] = rows[k].response_text
            /\ HasNoOneLine(m.text) <=> rows = << >>

C9_Witness ==
    /\ last.op = "post_daily_summary"
    /\ RespondedToday = {"alice", "bob"}
    /\ \E m \in Delivered("summary") :
           /\ Len(Bullets(m.text)) = Cardinality(RowsOfToday)
           /\ Bullets(m.text)[1][2] # Bullets(m.text)[2][2]

\* C10: is_workday is False on every Saturday and Sunday whatever the
\* holidays table holds, and on a Monday-to-Friday date it is False exactly
\* when the table has a row for that date.
C10_IsWorkday ==
    last.op = "is_workday" =>
        /\ IsWeekend(last.arg) => last.result = "False"
        /\ ~IsWeekend(last.arg) =>
              (last.result = "False" <=> HolidayOn(last.arg))

C10_Witness ==
    /\ last.op = "is_workday"
    /\ DayName(last.arg) = "Friday"
    /\ HolidayOn(last.arg)
    /\ \E h \in holidays : IsWeekend(DayOf(h.holiday_date))
    /\ last.result = "False"


\* C11: is_user_on_leave(u, d) is True exactly when some leave row of user u
\* has start <= d <= end, the start date and the end date included; the rows
\* of other users make no difference.
CoveredBy(u, d) ==
    {i \in DOMAIN leave :
        /\ leave[i].user_id = u
        /\ DayOf(leave[i].start_date) <= d
        /\ d <= DayOf(leave[i].end_date)}

C11_OnLeaveInclusive ==
    last.op = "is_user_on_leave" =>
        (last.result = "True" <=> CoveredBy(last.user, last.arg) # {})

C11_Witness ==
    /\ last.op = "is_user_on_leave"
    /\ last.user = "carol"
    /\ last.result = "True"
    /\ \E i \in CoveredBy("carol", last.arg) :
           /\ DayOf(leave[i].end_date) = last.arg
           /\ DayOf(leave[i].start_date) < last.arg
    /\ \E j \in DOMAIN leave :
           /\ leave[j].user_id = "bob"
           /\ DayOf(leave[j].end_date) < last.arg


\* C12: the holidays table never holds two entries for one calendar date;
\* an admin's /holiday with a date and a description stores that description
\* under that date, replacing what the date had and touching no other date;
\* an admin's /holiday with an unparsable date or without a description
\* is answered with a message and leaves the table as it was.
DateOfText(tok) ==
    {d \in Dates : Calendar[d + 1] = tok \/ USCalendar[d + 1] = tok}

OneHolidayPerDate ==
    \A g, h \in holidays :
        DayOf(g.holiday_date) = DayOf(h.holiday_date) => g = h

HolidayRejected(text) ==
    Len(text) < 2 \/ DateOfText(text[1]) = {}

HolidayStored(text) ==
    \E d \in DateOfText(text[1]) :
        /\ \E h \in holidays' :
               DayOf(h.holiday_date) = d /\ h.description = Tail(text)
        /\ {h \in holidays' : DayOf(h.holiday_date) # d}
             = {h \in holidays : DayOf(h.holiday_date) # d}

HandleFor(day) ==
    IF Calendar[day + 1] \in DOMAIN daily_thread_ts
    THEN daily_thread_ts[Calendar[day + 1]]
    ELSE None

C13_ThreadIsCurrentHandle ==
    \A m \in Delivered("confirm") \cup Delivered("summary") :
        m.thread = HandleFor(today)

\* C13 amended: handle_response takes the handle recorded for the date of
\* submission when it starts (no thread when none is recorded) and its
\* confirmation carries that handle, whatever prompt is posted meanwhile; a
\* summary carries the handle recorded as it is posted; a restart empties
\* the dict, after which both are posted unthreaded.
C13_ThreadIsHandleRead ==
    [][/\ \A c \in inflight' \ inflight :
              c.op = "handle_response" => c.ts = HandleFor(today)
       /\ \A m \in Delivered("confirm")' :
              \E c \in inflight \ inflight' :
                  c.op = "handle_response" /\ m.thread = c.ts
       /\ \A m \in Delivered("summary")' : m.thread = HandleFor(today)
       /\ last'.op = "restart" =>
              \A d \in Dates : HandleFor(d)' = None]_vars

C13_Witness ==
    /\ last.op = "handle_simple_checkin"
    /\ last.result = "done"
    /\ \E m \in Delivered("confirm") : m.thread = None
    /\ nextTs > 1
    /\ inflight = {}
    /\ HandleFor(today) = None
    /\ RowsOfToday # {}


\* C14: every date has at most one handle, a ts Slack returned for a prompt;
\* a prompt post that completes (scheduled or forced, whatever ran in
\* between) leaves the ts it was returned as the handle of its date and
\* touches no other date; a post whose chat_postMessage fails, and every
\* other step but a restart, leaves the dict as it was.
IssuedTs == {TsValues[n] : n \in 1 .. (nextTs - 1)}

HandlesIssued ==
    /\ DOMAIN daily_thread_ts \subseteq {Calendar[d + 1] : d \in Dates}
    /\ \A d \in Dates : HandleFor(d) # None => HandleFor(d) \in IssuedTs

PostsCompleted ==
    {c \in inflight \ inflight' :
        c.op \in {"post_daily_checkin", "handle_post_checkin"}}

DictKept == \A d \in Dates : HandleFor(d)' = HandleFor(d)

C14_HandleOfLastCompletedPost ==
    /\ []HandlesIssued
    /\ [][/\ \A c \in inflight' \ inflight :
                c.op \in {"post_daily_checkin", "handle_post_checkin"}
                    => c.ts = TsValues[nextTs] /\ Delivered("prompt")' # {}
          /\ IF last'.op = "restart"
             THEN TRUE
             ELSE IF PostsCompleted # {}
             THEN \E c \in PostsCompleted :
                    /\ HandleFor(DayOf(c.day))' = c.ts
                    /\ \A d \in Dates \ {DayOf(c.day)} :
                           HandleFor(d)' = HandleFor(d)
             ELSE DictKept
          /\ (last'.failed # "none") => DictKept]_vars

\* the prompt posted first had its ts stored last
C14_Witness ==
    /\ last.op \in {"post_daily_checkin", "handle_post_checkin"}
    /\ last.result = "done"
    /\ inflight = {}
    /\ nextTs = 3
    /\ HandleFor(today) = TsValues[1]


\* C15: when the delivery of a reminder fails at one recipient, no recipient
\* the loop had not passed yet is reminded in that run (only recipients it
\* had passed are), the failing recipient is not reminded either, and the
\* run ends with the failure logged: nothing is raised to its caller and
\* the scheduler thread lives on.
C15_DeliveryFailureAbortsLoop ==
    (ReminderRun /\ last.failed = "chat_postMessage") =>
        LET passed == last.arg[1]
            failedAt == last.arg[2]
        IN  /\ failedAt \in ExpectedReminded
            /\ failedAt \notin passed
            /\ Reminded = ExpectedReminded \cap passed
            /\ last.result = "logged"
            /\ last.by = "sched" => schedAlive

C15_Witness ==
    /\ last.op = "post_reminders"
    /\ last.failed = "chat_postMessage"
    /\ Reminded = {"carol"}
    /\ ExpectedReminded = {"alice", "bob", "carol"}
    /\ schedAlive


\* C16: a run of post_reminders in which conversations_members or a
\* users_info call raises reminds nobody and still ends normally: nothing
\* is logged as a failure of the reminders, nothing is raised to the caller.
LookupFailures == {"conversations_members", "users_info"}

C16_FailedLookupRemindsNobody ==
    (last.op \in {"post_reminders", "handle_post_reminders"}
        /\ last.failed \in LookupFailures)
    => /\ Reminded = {}
       /\ last.result = "done"
       /\ last.by = "sched" => schedAlive

C16_Witness ==
    /\ last.op = "post_reminders"
    /\ last.failed = "users_info"
    /\ last.result = "done"
    /\ ExpectedReminded = {"bob", "carol"}
    /\ Reminded = {}


\* C17: a click on In Late, Appointment or Other records nothing and posts
\* no confirmation; the submission of the detail form it opened records a
\* row of the submitter for today with the label of the clicked button and
\* the detail entered; a click on one of the other four buttons records at
\* once a row with the button's label and no detail.
ImmediateLabel ==
    [action_in_normal |-> "In at Normal Time",
     action_wfh |-> "Working from Home",
     action_out_sick |-> "Out Sick",
     action_liberty |-> "Liberty"]

DetailLabel ==
    [action_in_late |-> "In Late",
     action_appointment |-> "Appointment",
     action_other |-> "Other"]

\* the rows added by the step
NewRows ==
    {responses'[i] : i \in DOMAIN responses'}
        \ {responses[i] : i \in DOMAIN responses}

RecordedNow(u, label, details) ==
    /\ Len(responses') = Len(responses) + 1
    /\ \E r \in NewRows :
           /\ r.user_id = u
           /\ DayOf(r.response_date) = today
           /\ r.response_text = label
           /\ r.details = details
    /\ \A i \in DOMAIN responses : responses'[i] = responses[i]

C17_DetailBeforeRecord ==
    [][/\ last'.op = "handle_modal_checkin" =>
              /\ last'.arg \in DOMAIN DetailLabel
              /\ responses' = responses
              /\ Delivered("confirm")' = {}
       /\ (last'.op = "handle_modal_submission" /\ last'.failed = "none") =>
              \E a \in DOMAIN DetailLabel :
                  /\ [user |-> last'.user, callback_id |-> last'.arg[1]]
                         \in openViews
                  /\ modal_callback_id[a] = last'.arg[1]
                  /\ RecordedNow(last'.user, DetailLabel[a], last'.arg[2])
                  /\ Delivered("confirm")' # {}
       /\ (last'.op = "handle_simple_checkin" /\ last'.failed = "none") =>
              /\ last'.arg \in DOMAIN ImmediateLabel
              /\ RecordedNow(last'.user, ImmediateLabel[last'.arg], None)
              /\ Delivered("confirm")' # {}]_vars

C17_Witness ==
    /\ last.op = "handle_modal_submission"
    /\ last.arg = << "modal_submit_action_other", "10:30 AM" >>
    /\ last.result = "done"
    /\ Len(responses) = 1
    /\ responses[1].response_text = "Other"
    /\ responses[1].details = "10:30 AM"
    /\ events = 2


\* C18: a response whose confirmation fails to be delivered has its row
\* written all the same, and a response whose INSERT fails writes no row and
\* posts no confirmation; a row written counts from then on: its user is
\* not reminded and a summary that is posted has a bullet for it.
ResponseOps == {"handle_simple_checkin", "handle_modal_submission"}

C18_WriteBeforeConfirm ==
    /\ [][last'.op \in ResponseOps =>
            /\ last'.failed = "chat_postMessage" =>
                  /\ Len(responses') = Len(responses) + 1
                  /\ \E r \in NewRows :
                         /\ r.user_id = last'.user
                         /\ DayOf(r.response_date) = today
                  /\ Delivered("confirm")' = {}
            /\ last'.failed = "responses.insert" =>
                  /\ responses' = responses
                  /\ Delivered("confirm")' = {}]_vars
    /\ [](Reminded \cap RespondedToday = {})
    /\ [](\A m \in Delivered("summary") :
             \A u \in RespondedToday :
                 \E k \in DOMAIN m.text :
                     m.text[k][1] = "bullet" /\ m.text[k][2] = u)

C18_Witness ==
    /\ last.op = "handle_simple_checkin"
    /\ last.failed = "chat_postMessage"
    /\ last.result = "logged"
    /\ last.user \in RespondedToday
    /\ Len(responses) = 1
    /\ sent = {}


\* C19: a check-in whose INSERT does not fail is recorded under the date it
\* was submitted on, whether or not that date is a Saturday, a Sunday or a
\* holiday and whether or not a handle is recorded for it; on such an off
\* day the scheduler's reminders and summary still send nothing.
C19_ResponsesIgnoreOffDays ==
    /\ [][(last'.op \in ResponseOps /\ last'.failed # "responses.insert") =>
            /\ Len(responses') = Len(responses) + 1
            /\ \E r \in NewRows :
                   /\ r.user_id = last'.user
                   /\ DayOf(r.response_date) = today]_vars
    /\ []((/\ OffDay(today)
           /\ last.by = "sched"
           /\ last.op \in {"post_reminders", "post_daily_summary"})
          => sent = {})

\* a Friday made a holiday after its prompt was posted
C19_Witness ==
    /\ last.op = "handle_simple_checkin"
    /\ last.result = "done"
    /\ DayName(today) = "Friday"
    /\ HolidayOn(today)
    /\ HandleFor(today) # None
    /\ events = 2
    /\ last.user \in RespondedToday

====
